---- MODULE Spec2Model ----
(***************************************************************************)
(* scripts/youtube_m3ugrabber.py: process_input_file reads a channel list  *)
(* and writes an M3U playlist; grab_m3u8 resolves each URL line to a       *)
(* stream link with a chain of text heuristics.                            *)
(*                                                                         *)
(* A Python str is a sequence of one-character strings; None and the empty *)
(* string are both the empty sequence (the code only tests them for        *)
(* truthiness).  Indices are 1-based; 0 stands for Python's -1.            *)
(***************************************************************************)
EXTENDS Integers, Sequences, FiniteSets, TLC

VARIABLES
    exists,     \* os.path.exists(input_path)
    hasBs4,     \* BeautifulSoup imported (module level, optional)
    lines,      \* the input file, one str per line
    pc,         \* position in process_input_file
    idx,        \* loop index of process_input_file (1-based)
    out,        \* output_stream: the strings written, one per write()
    log,        \* history: for each record of out after the banner, its input line
    gets,       \* history: number of session.get calls of the run
    page,       \* grab_m3u8: the fetched page, while its scripts are tried
    scripts,    \* grab_m3u8: script_srcs[:5]
    k,          \* grab_m3u8: index of the next script to fetch
    call        \* history: the running, else the last, grab_m3u8 call

vars == <<exists, hasBs4, lines, pc, idx, out, log, gets, page, scripts, k, call>>

\* ---------------------------------------------------------------- bounds
MaxLines == 2
MaxElems == 2
MaxScripts == 6

\* ------------------------------------------------------ program constants
WindowBack == 400
WindowFwd == 20
MaxScriptFetch == 5

None == <<>>

\* ------------------------------------------------------- Python str model
Min(S) == CHOOSE x \in S : \A y \in S : x <= y
Max(S) == CHOOSE x \in S : \A y \in S : x >= y

LC ==
    <<"a", "b", "c", "d", "e", "f", "g", "h", "i", "j", "k", "l", "m", "n", "o", "p", "q", "r",
    "s", "t", "u", "v", "w", "x", "y", "z">>
UC ==
    <<"A", "B", "C", "D", "E", "F", "G", "H", "I", "J", "K", "L", "M", "N", "O", "P", "Q", "R",
    "S", "T", "U", "V", "W", "X", "Y", "Z">>

IsLower(c) == \E i \in 1..26 : LC[i] = c
IsUpper(c) == \E i \in 1..26 : UC[i] = c
IsCased(c) == IsLower(c) \/ IsUpper(c)
LowerChar(c) == IF IsUpper(c) THEN LC[CHOOSE i \in 1..26 : UC[i] = c] ELSE c
UpperChar(c) == IF IsLower(c) THEN UC[CHOOSE i \in 1..26 : LC[i] = c] ELSE c

\* str.lower()
Lower(s) == [i \in 1..Len(s) |-> LowerChar(s[i])]

\* str.title(): a cased character is upper-cased unless it follows a cased one
Title(s) ==
    [i \in 1..Len(s) |->
        IF i > 1 /\ IsCased(s[i-1]) THEN LowerChar(s[i]) ELSE UpperChar(s[i])]

Whitespace == {" ", "\t", "\n", "\r"}

\* s[i-1:].startswith(p)
StartsWithAt(s, i, p) ==
    /\ i >= 1
    /\ i + Len(p) - 1 <= Len(s)
    /\ \A j \in 1..Len(p) : s[i + j - 1] = p[j]

StartsWith(s, p) == StartsWithAt(s, 1, p)

\* the same on s.lower(), p in lower case: the characters are lowered where
\* they are compared
LowerStartsWithAt(s, i, p) ==
    /\ i >= 1
    /\ i + Len(p) - 1 <= Len(s)
    /\ \A j \in 1..Len(p) : LowerChar(s[i + j - 1]) = p[j]
LowerEndsWith(s, p) ==
    Len(s) >= Len(p) /\ LowerStartsWithAt(s, Len(s) - Len(p) + 1, p)

\* least and greatest element of a set of indices, d if it is empty
FirstOr(S, d) == IF S = {} THEN d ELSE Min(S)
LastOr(S, d) == IF S = {} THEN d ELSE Max(S)

\* str.find / str.rfind / "p in s"
Find(s, p) == FirstOr({i \in 1..Len(s) : StartsWithAt(s, i, p)}, 0)
RFind(s, p) == LastOr({i \in 1..Len(s) : StartsWithAt(s, i, p)}, 0)
\* s.lower().find(p)
LowerFind(s, p) == FirstOr({i \in 1..Len(s) : LowerStartsWithAt(s, i, p)}, 0)

\* str.strip(chars)
Between(s, keep) == IF keep = {} THEN <<>> ELSE SubSeq(s, Min(keep), Max(keep))
StripChars(s, chars) == Between(s, {i \in 1..Len(s) : s[i] \notin chars})
Strip(s) == StripChars(s, Whitespace)

\* str.split(sep), sep one character: the pieces between the separators
SepsOf(s, sep) == {i \in 1..Len(s) : s[i] = sep}
Nth(S, n) == CHOOSE i \in S : Cardinality({j \in S : j <= i}) = n
Piece(s, S, n) ==
    SubSeq(s, IF n = 1 THEN 1 ELSE Nth(S, n - 1) + 1,
              IF n > Cardinality(S) THEN Len(s) ELSE Nth(S, n) - 1)
Split(s, sep) ==
    [n \in 1..(Cardinality(SepsOf(s, sep)) + 1) |-> Piece(s, SepsOf(s, sep), n)]

\* str.split()[0] of a string that starts with a non-blank character
FirstWord(s) ==
    SubSeq(s, 1, FirstOr({i \in 1..Len(s) : s[i] \in Whitespace}, Len(s) + 1) - 1)

\* sep.join(parts)
RECURSIVE Join(_, _)
Join(parts, sep) ==
    IF parts = <<>> THEN <<>>
    ELSE IF Len(parts) = 1 THEN parts[1]
    ELSE parts[1] \o sep \o Join(Tail(parts), sep)

RECURSIVE Concat(_)
Concat(ss) == IF ss = <<>> THEN <<>> ELSE ss[1] \o Concat(Tail(ss))

\* ------------------------------------------------------------- constants
HTTP ==
    <<"h", "t", "t", "p">>
COLON_SLASHES ==
    <<":", "/", "/">>
DOT_M3U8 ==
    <<".", "m", "3", "u", "8">>
HREF_EQ ==
    <<"h", "r", "e", "f", "=">>
SRC_EQ ==
    <<"s", "r", "c", "=">>
TildeTilde ==
    <<"~", "~">>

FALLBACK_M3U ==
    <<"h", "t", "t", "p", "s", ":", "/", "/", "r", "a", "w", ".", "g", "i", "t", "h", "u", "b",
    "u", "s", "e", "r", "c", "o", "n", "t", "e", "n", "t", ".", "c", "o", "m", "/", "b", "e",
    "n", "m", "o", "o", "s", "e", "3", "9", "/", "Y", "o", "u", "T", "u", "b", "e", "_", "t",
    "o", "_", "m", "3", "u", "/", "m", "a", "i", "n", "/", "a", "s", "s", "e", "t", "s", "/",
    "m", "o", "o", "s", "e", "_", "n", "a", ".", "m", "3", "u">>

HEADER ==
    <<"#", "E", "X", "T", "M", "3", "U", " ", "x", "-", "t", "v", "g", "-", "u", "r", "l", "=",
    "\"", "h", "t", "t", "p", "s", ":", "/", "/", "g", "i", "t", "h", "u", "b", ".", "c", "o",
    "m", "/", "b", "o", "t", "a", "l", "l", "e", "n", "/", "e", "p", "g", "/", "r", "e", "l",
    "e", "a", "s", "e", "s", "/", "d", "o", "w", "n", "l", "o", "a", "d", "/", "l", "a", "t",
    "e", "s", "t", "/", "e", "p", "g", ".", "x", "m", "l", "\"", "\n">>

\* the banner is one opaque block: its art is not read by anything
BANNER == <<"<banner>">>

EXTINF_GROUP ==
    <<"\n", "#", "E", "X", "T", "I", "N", "F", ":", "-", "1", " ", "g", "r", "o", "u", "p",
    "-", "t", "i", "t", "l", "e", "=", "\"">>
EXTINF_LOGO ==
    <<"\"", " ", "t", "v", "g", "-", "l", "o", "g", "o", "=", "\"">>
EXTINF_ID ==
    <<"\"", " ", "t", "v", "g", "-", "i", "d", "=", "\"">>
EXTINF_NAME ==
    <<"\"", ",", " ">>
COMMENT_PRE ==
    <<"\n", "#", " ">>
NL == <<"\n">>

\* ------------------------------------------------- urllib.parse (library)
\* urlparse(url).netloc of a URL with a scheme: what follows "://" up to the
\* next "/"
NetlocAt(url, at) ==
    IF at = 0 THEN <<>> ELSE Split(SubSeq(url, at + 3, Len(url)), "/")[1]
Netloc(url) == NetlocAt(url, Find(url, COLON_SLASHES))

\* urlparse raises ValueError("Invalid IPv6 URL") on an unbalanced bracket
Unbalanced(netloc) ==
    \/ Find(netloc, <<"[">>) # 0 /\ Find(netloc, <<"]">>) = 0
    \/ Find(netloc, <<"]">>) # 0 /\ Find(netloc, <<"[">>) = 0
UrlparseRaises(url) == Unbalanced(Netloc(url))

\* the dot-segment loop of urljoin
RECURSIVE ResolveSegments(_, _)
ResolveSegments(segments, resolved) ==
    IF segments = <<>> THEN resolved
    ELSE IF Head(segments) = <<".", ".">>
    THEN ResolveSegments(Tail(segments),
             IF resolved = <<>> THEN resolved
             ELSE SubSeq(resolved, 1, Len(resolved) - 1))
    ELSE IF Head(segments) = <<".">>
    THEN ResolveSegments(Tail(segments), resolved)
    ELSE ResolveSegments(Tail(segments), Append(resolved, Head(segments)))

\* segments[1:-1] = filter(None, segments[1:-1])
FilterInner(segments) ==
    IF Len(segments) <= 2 THEN segments
    ELSE <<segments[1]>>
         \o SelectSeq(SubSeq(segments, 2, Len(segments) - 1), LAMBDA g : g # <<>>)
         \o <<segments[Len(segments)]>>

\* base_parts: the base path split, without its last segment unless empty
BaseParts(bsplit) ==
    IF bsplit[Len(bsplit)] # <<>> THEN SubSeq(bsplit, 1, Len(bsplit) - 1) ELSE bsplit

\* the segments to resolve, for a base path and a reference
Segments(bpath, url) ==
    IF url[1] = "/" THEN Split(url, "/")
    ELSE FilterInner(BaseParts(Split(bpath, "/")) \o Split(url, "/"))

\* the resolved path: a trailing "." or ".." leaves a trailing "/"
ResolvedPath(segments) ==
    Join(ResolveSegments(segments, <<>>)
             \o (IF segments[Len(segments)] \in {<<".">>, <<".", ".">>}
                 THEN <<<<>>>> ELSE <<>>),
         <<"/">>)

\* urlunparse: "/" between a netloc and a path that lacks it; an empty path is "/"
Unparse(prefix, path) ==
    IF path = <<>> \/ path[1] # "/" THEN prefix \o <<"/">> \o path ELSE prefix \o path

\* index of the first character of the path of a base "scheme://netloc/path"
PathStart(base) == Find(base, COLON_SLASHES) + 3 + Len(Netloc(base))

UrljoinAt(base, url, pathStart) ==
    Unparse(SubSeq(base, 1, pathStart - 1),
            ResolvedPath(Segments(SubSeq(base, pathStart, Len(base)), url)))

\* urljoin(base, url) for a base "scheme://netloc/path" and a reference
\* without query, parameters or fragment; a reference with a scheme and a
\* netloc comes back as it is
urljoin(base, url) ==
    IF base = <<>> THEN url
    ELSE IF url = <<>> THEN base
    ELSE IF Find(url, COLON_SLASHES) # 0 THEN url
    ELSE UrljoinAt(base, url, PathStart(base))

\* ------------------------------------------------------------ the regexes
\* length of what https?:// matches at position i (IGNORECASE), 0 if nothing
SchemeLen(t, i) ==
    IF LowerStartsWithAt(t, i, HTTP \o <<"s">> \o COLON_SLASHES) THEN 8
    ELSE IF LowerStartsWithAt(t, i, HTTP \o COLON_SLASHES) THEN 7
    ELSE 0

\* [^\s"'<>#] and [^\s"'<>]
UrlStop == Whitespace \cup {"\"", "'", "<", ">", "#"}
SimpleStop == Whitespace \cup {"\"", "'", "<", ">"}

\* first position >= from holding a character of stop, Len+1 if none
NextStop(t, from, stop) == FirstOr({i \in from..Len(t) : t[i] \in stop}, Len(t) + 1)

\* positions where ".m3u8" (IGNORECASE) can end [^\s"'<>#]+ begun at from:
\* at least one character before it, no stop character up to its end
M3u8After(t, from) ==
    {j \in (from + 1)..(NextStop(t, from, UrlStop) - 5) : LowerStartsWithAt(t, j, DOT_M3U8)}

EndAt(j) == IF j = 0 THEN 0 ELSE j + 4

\* last index of the match of URL_RE anchored at a scheme of length sl at i,
\* 0 if none: the lazy +? stops at the nearest ".m3u8"
\* variant: a greedy quantifier, the match runs to the last ".m3u8"
UrlReEndGreedy(t, i, sl) ==
    IF sl = 0 THEN 0 ELSE EndAt(LastOr(M3u8After(t, i + sl), 0))

UrlReEndLazy(t, i, sl) ==
    IF sl = 0 THEN 0 ELSE EndAt(FirstOr(M3u8After(t, i + sl), 0))

UrlReEnd(t, i) == UrlReEndLazy(t, i, SchemeLen(t, i))

MatchAt(text, i, end) == IF i = 0 THEN None ELSE SubSeq(text, i, end)

\* URL_RE.search(text).group(0): the leftmost match, None if none
UrlReSearchFrom(text, i) == MatchAt(text, i, UrlReEnd(text, i))
URL_RE_search(text) ==
    UrlReSearchFrom(text, FirstOr({i \in 1..Len(text) : UrlReEnd(text, i) # 0}, 0))

\* last index of the match of SIMPLE_URL_RE anchored at a scheme of length sl
\* at i, 0 if none: the greedy + runs up to the next stop character
SimpleReEndAt(t, i, sl) ==
    IF sl = 0 \/ NextStop(t, i + sl, SimpleStop) = i + sl THEN 0
    ELSE NextStop(t, i + sl, SimpleStop) - 1
SimpleReEnd(t, i) == SimpleReEndAt(t, i, SchemeLen(t, i))

\* SIMPLE_URL_RE.findall(text): the non-overlapping matches, left to right
RECURSIVE SimpleFindAllFrom(_, _)
SimpleMatchThenRest(text, i, end) ==
    IF i = 0 THEN <<>> ELSE <<SubSeq(text, i, end)>> \o SimpleFindAllFrom(text, end + 1)
SimpleNext(text, i) == SimpleMatchThenRest(text, i, SimpleReEnd(text, i))
SimpleFindAllFrom(text, from) ==
    SimpleNext(text, FirstOr({i \in from..Len(text) : SimpleReEnd(text, i) # 0}, 0))

SIMPLE_URL_RE_findall(text) == SimpleFindAllFrom(text, 1)

Quotes == {"\"", "'"}

\* length of what (?:href|src)= matches at position i (IGNORECASE)
AttrLen(t, i) ==
    IF LowerStartsWithAt(t, i, HREF_EQ) THEN 5
    ELSE IF LowerStartsWithAt(t, i, SRC_EQ) THEN 4
    ELSE 0

\* group(1) of rel_re for an attribute whose quote opens at open and closes at
\* close: ["']([^"']+\.m3u8)["']
RelReQuoted(t, open, close) ==
    IF /\ open <= Len(t)
       /\ t[open] \in Quotes
       /\ close <= Len(t)
       /\ close - open - 1 >= 6
       /\ LowerEndsWith(SubSeq(t, open + 1, close - 1), DOT_M3U8)
    THEN SubSeq(t, open + 1, close - 1) ELSE None

RelReGroupAt(t, i, n) ==
    IF n = 0 THEN None ELSE RelReQuoted(t, i + n, NextStop(t, i + n + 1, Quotes))

\* group(1) of rel_re anchored at i, None if no match
RelReGroup(t, i) == RelReGroupAt(t, i, AttrLen(t, i))

RelReFrom(text, i) == IF i = 0 THEN None ELSE RelReGroup(text, i)
rel_re_search(text) ==
    RelReFrom(text, FirstOr({i \in 1..Len(text) : RelReGroup(text, i) # None}, 0))

\* ------------------------------------------------------ find_m3u8_in_text

\* step 2, lines 77-85: the candidate cut out of text[start:end]
WindowFrom(window, http_idx) ==
    IF http_idx = 0 THEN None
    ELSE StripChars(FirstWord(SubSeq(window, http_idx, Len(window))),
                    {"'", "\"", "<", ">", ")", ",", ";"})

CandidateIn(window) == WindowFrom(window, RFind(window, HTTP))

EndingInM3u8(candidate) ==
    IF LowerEndsWith(candidate, DOT_M3U8) THEN candidate ELSE None

\* lines 74-79, idx the 0-based index of the first ".m3u8"
WindowAround(text, idx0) ==
    SubSeq(text,
           (IF idx0 - WindowBack > 0 THEN idx0 - WindowBack ELSE 0) + 1,
           IF idx0 + WindowFwd < Len(text) THEN idx0 + WindowFwd ELSE Len(text))

WindowAt(text, at) ==
    IF at = 0 THEN None ELSE EndingInM3u8(CandidateIn(WindowAround(text, at - 1)))

WindowCandidate(text) == WindowAt(text, LowerFind(text, DOT_M3U8))

\* step 3, lines 88-93
RelStep(base_url, m2) ==
    [link  |-> IF m2 # None THEN urljoin(base_url, m2) ELSE None,
     tried |-> <<"regex", "window", "relattr">>]

\* step 2, then step 3 if there is a base_url
WindowStep(text, base_url, c) ==
    IF c # None THEN [link |-> c, tried |-> <<"regex", "window">>]
    ELSE IF base_url # <<>> THEN RelStep(base_url, rel_re_search(text))
    ELSE [link |-> None, tried |-> <<"regex", "window">>]

\* step 1, lines 69-71, then the rest
RegexStep(text, base_url, m) ==
    IF m # None THEN [link |-> m, tried |-> <<"regex">>]
    ELSE WindowStep(text, base_url, WindowCandidate(text))

\* the link (None if none) with the steps that were run
find_m3u8_in_text(text, base_url) == RegexStep(text, base_url, URL_RE_search(text))

\* ------------------------------------------------------------ the network
\* What a host serves.  A page is a sequence of elements, each a run of text
\* or a tag with one attribute, followed by nscripts external script tags.
TagNone == [name |-> "", attr |-> "", val |-> <<>>]

\* the elements: text runs
\*   direct    http://c/v.m3u8          directq   http://c/w.m3u8?t=1
\*   upper     HTTP://C/U.M3U8          frag      http://c/#f.m3u8
\*   fragq     http://c/#g.m3u8?t       bare      x.m3u8 followed by a space
\*   httpword  httpz.m3u8
\*   far       http://c/# and WindowBack letters before .m3u8: "http" lies
\*             outside the window
\* and tags
\*   src       <source src="v.m3u8">    srcdot    <source src=".m3u8">
\*   adotdot   <a href="x.m3u8/../y">
Elems == {"direct", "directq", "upper", "frag", "fragq", "bare", "httpword", "far",
          "src", "srcdot", "adotdot"}

ElemTag(e) ==
    CASE e = "src"     -> [name |-> "source", attr |-> "src",  val |-> <<"v", ".", "m", "3", "u", "8">>]
      [] e = "srcdot"  -> [name |-> "source", attr |-> "src",  val |-> <<".", "m", "3", "u", "8">>]
      [] e = "adotdot" ->
             [name |-> "a", attr |-> "href",
              val |-> <<"x", ".", "m", "3", "u", "8", "/", ".", ".", "/", "y">>]
      [] OTHER         -> TagNone

NameChars(n) ==
    CASE n = "source" -> <<"s", "o", "u", "r", "c", "e">>
      [] n = "a"      -> <<"a">>
      [] n = "script" -> <<"s", "c", "r", "i", "p", "t">>
      [] n = "src"    -> <<"s", "r", "c">>
      [] n = "href"   -> <<"h", "r", "e", "f">>

\* <name attr="val">
TagText(tag) ==
    <<"<">> \o NameChars(tag.name) \o <<" ">> \o NameChars(tag.attr)
        \o <<"=", "\"">> \o tag.val \o <<"\"", ">">>

ElemText(e) ==
    CASE e = "direct" ->
             <<"h", "t", "t", "p", ":", "/", "/", "c", "/", "v", ".", "m", "3", "u", "8">>
      [] e = "directq" ->
             <<"h", "t", "t", "p", ":", "/", "/", "c", "/", "w", ".", "m", "3", "u", "8", "?", "t", "=", "1">>
      [] e = "upper" ->
             <<"H", "T", "T", "P", ":", "/", "/", "C", "/", "U", ".", "M", "3", "U", "8">>
      [] e = "frag" ->
             <<"h", "t", "t", "p", ":", "/", "/", "c", "/", "#", "f", ".", "m", "3", "u", "8">>
      [] e = "fragq" ->
             <<"h", "t", "t", "p", ":", "/", "/", "c", "/", "#", "g", ".", "m", "3", "u", "8", "?", "t">>
      [] e = "bare" ->
             <<"x", ".", "m", "3", "u", "8", " ">>
      [] e = "httpword" ->
             <<"h", "t", "t", "p", "z", ".", "m", "3", "u", "8">>
      [] e = "far" ->
             <<"h", "t", "t", "p", ":", "/", "/", "c", "/", "#">> \o [i \in 1..WindowBack |-> "a"] \o DOT_M3U8
      [] OTHER -> TagText(ElemTag(e))

\* the i-th external script of a page: <script src="/s<i>.js"></script>
ScriptSrc(i) ==
    <<"/", "s", <<"0", "1", "2", "3", "4", "5", "6", "7", "8", "9">>[i + 1], ".", "j", "s">>
ScriptTag(i) == [name |-> "script", attr |-> "src", val |-> ScriptSrc(i)]
ScriptText(i) == TagText(ScriptTag(i)) \o <<"<", "/", "s", "c", "r", "i", "p", "t", ">">>

\* r.text of a page
PageText(p) ==
    Concat([i \in 1..Len(p.elems) |-> ElemText(p.elems[i])])
        \o Concat([i \in 1..p.nscripts |-> ScriptText(i)])

\* the tags BeautifulSoup(text, 'html.parser') finds, in document order
PageTags(p) ==
    SelectSeq([i \in 1..Len(p.elems) |-> ElemTag(p.elems[i])], LAMBDA t : t # TagNone)
        \o [i \in 1..p.nscripts |-> ScriptTag(i)]

SeqsUpTo(S, n) == UNION {[1..m -> S] : m \in 0..n}

\* numbers of script tags: none, one, more than are requested
ScriptCounts == {0, 1, MaxScripts}
RichPages ==
    {[elems |-> es, nscripts |-> n] : es \in SeqsUpTo(Elems, MaxElems), n \in ScriptCounts}
SmallPages ==
    {[elems |-> es, nscripts |-> n] : es \in {<<>>, <<"direct">>, <<"adotdot">>}, n \in 0..1}

\* the pages a URL may answer with: host r serves every page of the bounds
Serve(url) == IF Netloc(url) = <<"r">> THEN RichPages ELSE SmallPages

BodyLink ==
    <<"u", "=", "\"", "h", "t", "t", "p", ":", "/", "/", "c", "/", "s", ".", "m", "3", "u",
    "8", "\"", ";">>
BodyRel ==
    <<"s", "r", "c", "=", "'", "t", ".", "m", "3", "u", "8", "'">>
BodyNested ==
    <<"<", "s", "c", "r", "i", "p", "t", " ", "s", "r", "c", "=", "\"", "/", "n", ".", "j",
    "s", "\"", ">", "<", "/", "s", "c", "r", "i", "p", "t", ">">>

\* the bodies an external script may answer with: no link (and a script tag
\* of its own), an absolute link, a relative link
ScriptBodies == {BodyNested, BodyLink, BodyRel}

\* ---------------------------------------------------- try_extract_via_bs4
\* tag.get(attr): None when the tag has no such attribute
TagGet(tag, attr) == IF tag.attr = attr THEN tag.val ELSE None
\* Python's "a or b"
Or(a, b) == IF a # <<>> THEN a ELSE b

SourceSrc(tag) == Or(TagGet(tag, "src"), TagGet(tag, "data-src"))
OtherSrc(tag) == Or(TagGet(tag, "src"), Or(TagGet(tag, "href"), TagGet(tag, "data-src")))

FirstOf(xs) == IF xs = <<>> THEN None ELSE xs[1]

\* lines 105-108: the first <source> whose src ends in .m3u8
SourceHit(tags) ==
    FirstOf(SelectSeq([i \in 1..Len(tags) |->
                          IF tags[i].name = "source" THEN SourceSrc(tags[i]) ELSE None],
                      LAMBDA src : src # <<>> /\ LowerEndsWith(src, DOT_M3U8)))

\* lines 110-113: the first <iframe>, <link> or <a> whose src contains .m3u8
OtherHit(tags) ==
    FirstOf(SelectSeq([i \in 1..Len(tags) |->
                          IF tags[i].name \in {"iframe", "link", "a"}
                          THEN OtherSrc(tags[i]) ELSE None],
                      LAMBDA src : src # <<>> /\ Find(src, DOT_M3U8) # 0))

JoinHit(base_url, src) == IF src # None THEN urljoin(base_url, src) ELSE None

Bs4Other(tags, base_url, hit) ==
    IF hit # None THEN hit ELSE JoinHit(base_url, OtherHit(tags))

Bs4Tags(tags, base_url) == Bs4Other(tags, base_url, JoinHit(base_url, SourceHit(tags)))

\* p is the page whose text is parsed
try_extract_via_bs4(p, base_url) ==
    IF ~hasBs4 THEN None ELSE Bs4Tags(PageTags(p), base_url)

\* -------------------------------------------------------------- grab_m3u8
\* variant: the first URL containing ".m3u8", cut after it
UpToM3u8(c) == SubSeq(c, 1, LowerFind(c, DOT_M3U8) + 4)
AllUrlsCandidateTruncating(text) ==
    FirstOf([i \in 1..Len(SelectSeq(SIMPLE_URL_RE_findall(text),
                                    LAMBDA c : LowerFind(c, DOT_M3U8) # 0)) |->
                UpToM3u8(SelectSeq(SIMPLE_URL_RE_findall(text),
                                   LAMBDA c : LowerFind(c, DOT_M3U8) # 0)[i])])

\* lines 150-156: the first of all_urls that ends in .m3u8
AllUrlsCandidate(text) ==
    FirstOf(SelectSeq(SIMPLE_URL_RE_findall(text),
                      LAMBDA c : LowerEndsWith(c, DOT_M3U8)))

\* lines 149-156
AllUrlsStep(text, tried) ==
    [link |-> AllUrlsCandidate(text), tried |-> tried \o <<"bs4", "allurls">>]

\* lines 144-147, then the rest
Bs4Step(text, tried, b) ==
    IF b # None THEN [link |-> b, tried |-> Append(tried, "bs4")]
    ELSE AllUrlsStep(text, tried)

\* lines 141-142, then the rest
FindStep(p, url, f) ==
    IF f.link # None THEN f
    ELSE Bs4Step(PageText(p), f.tried, try_extract_via_bs4(p, url))

\* lines 139-156: the heuristics run on the fetched page
PageStage(p, url) == FindStep(p, url, find_m3u8_in_text(PageText(p), url))

ScriptTags(tags) ==
    SelectSeq(tags, LAMBDA t : t.name = "script" /\ TagGet(t, "src") # <<>>)
JoinAll(url, tags) == [i \in 1..Len(tags) |-> urljoin(url, TagGet(tags[i], "src"))]

\* lines 160-167
script_srcs(p, url) ==
    IF ~hasBs4 THEN <<>> ELSE JoinAll(url, ScriptTags(PageTags(p)))

Take(xs, n) == SubSeq(xs, 1, IF Len(xs) < n THEN Len(xs) ELSE n)

\* variant: no [:5], every script is requested
ScriptsToTryAll(p, url) == script_srcs(p, url)

\* script_srcs[:5]
ScriptsToTry(p, url) == Take(script_srcs(p, url), MaxScriptFetch)

\* ----------------------------------------------------- process_input_file
\* lines[idx].strip()
Line(i) == Strip(lines[i])
\* variant: "~~" lines are not skipped
IsSkippedBlankOnly(line) == line = <<>>
IsSkipped(line) == line = <<>> \/ StartsWith(line, TildeTilde)
IsUrl(line) == StartsWith(Lower(line), HTTP)
\* [p.strip() for p in line.split('|')]
StripAll(raw) == [i \in 1..Len(raw) |-> Strip(raw[i])]
Parts(line) == StripAll(Split(line, "|"))

\* variant: logo and id exchanged
ExtinfRecordSwapped(parts) ==
    EXTINF_GROUP \o Title(parts[2]) \o EXTINF_LOGO \o parts[4] \o EXTINF_ID \o parts[3]
        \o EXTINF_NAME \o parts[1] \o NL
ExtinfRecord(parts) ==
    EXTINF_GROUP \o Title(parts[2]) \o EXTINF_LOGO \o parts[3] \o EXTINF_ID \o parts[4]
        \o EXTINF_NAME \o parts[1] \o NL
\* variant: the line without the "# " prefix
CommentRecordBare(line) == line \o NL
CommentRecord(line) == COMMENT_PRE \o line \o NL

NoPage == [elems |-> <<>>, nscripts |-> 0]
\* history of one grab_m3u8 call: its URL, whether the page arrived, whether it
\* raised, the page, the heuristics run, the one that decided, the value
\* returned, the URLs requested, the scripts whose request raised, the script
\* bodies received
NoCall == [url |-> <<>>, fetchOk |-> FALSE, raised |-> FALSE, page |-> NoPage,
           tried |-> <<>>, via |-> "", result |-> <<>>, fetched |-> <<>>,
           failed |-> {}, bodies |-> <<>>]
Raised == <<"<raised>">>

InLoop == pc = "loop" /\ idx <= Len(lines)
GrabIdle == page' = NoPage /\ scripts' = <<>> /\ k' = 0
Fixed == UNCHANGED <<exists, hasBs4, lines>>

\* lines 184-192
Open ==
    /\ pc = "start" /\ exists
    /\ out' = <<HEADER, BANNER \o NL>>
    /\ pc' = "loop"
    /\ UNCHANGED <<idx, log, gets, page, scripts, k, call>>
    /\ Fixed

\* line 185
OpenMissing ==
    /\ pc = "start" /\ ~exists
    /\ pc' = "aborted"
    /\ UNCHANGED <<idx, out, log, gets, page, scripts, k, call>>
    /\ Fixed

\* variant: a skipped line takes the next line with it
SkipLineAndNext ==
    /\ pc = "loop" /\ idx <= Len(lines) /\ IsSkipped(Strip(lines[idx]))
    /\ idx' = idx + 2
    /\ UNCHANGED <<pc, out, log, gets, page, scripts, k, call, exists, hasBs4, lines>>

\* lines 204-206
SkipLine ==
    /\ InLoop
    /\ \E line \in {Line(idx)} : IsSkipped(line)
    /\ idx' = idx + 1
    /\ UNCHANGED <<pc, out, log, gets, page, scripts, k, call>>
    /\ Fixed

\* one write() of the loop body: the record, its history entry, the next line
Write(record, how) ==
    /\ out' = Append(out, record)
    /\ log' = Append(log, [line |-> idx, how |-> how])
    /\ idx' = idx + 1
    /\ pc' = "loop"

\* lines 209-217
MetaLine ==
    /\ InLoop
    /\ \E line \in {Line(idx)} :
           /\ ~IsSkipped(line) /\ ~IsUrl(line)
           /\ \E parts \in {Parts(line)} :
                  /\ Len(parts) >= 4
                  /\ Write(ExtinfRecord(parts), "extinf")
    /\ UNCHANGED <<gets, page, scripts, k, call>>
    /\ Fixed

\* lines 218-220
CommentLine ==
    /\ InLoop
    /\ \E line \in {Line(idx)} :
           /\ ~IsSkipped(line) /\ ~IsUrl(line)
           /\ \E parts \in {Parts(line)} :
                  /\ Len(parts) < 4
                  /\ Write(CommentRecord(line), "comment")
    /\ UNCHANGED <<gets, page, scripts, k, call>>
    /\ Fixed

IsUrlLine(line) == ~IsSkipped(line) /\ IsUrl(line)

\* grab_m3u8 returns c.result: line 225 writes it
Return(c) ==
    /\ Write(c.result \o NL, c.via)
    /\ call' = c
    /\ GrabIdle

\* variant: no try/except around the call, the exception ends the run
UrlParseErrorEscapes ==
    /\ InLoop
    /\ \E line \in {Line(idx)} : IsUrlLine(line) /\ UrlparseRaises(line)
    /\ pc' = "aborted"
    /\ UNCHANGED <<idx, out, log, gets, page, scripts, k, call>>
    /\ Fixed

\* line 128 raises inside grab_m3u8; lines 226-228 write the fallback
UrlParseError ==
    /\ InLoop
    /\ \E line \in {Line(idx)} :
           /\ IsUrlLine(line) /\ UrlparseRaises(line)
           /\ call' = [NoCall EXCEPT !.url = line, !.raised = TRUE, !.via = "raise"]
    /\ Write(FALLBACK_M3U \o NL, "raise")
    /\ GrabIdle
    /\ UNCHANGED gets
    /\ Fixed

\* variant: no try/except around session.get, the exception reaches the caller
FetchFailPropagates ==
    /\ InLoop
    /\ \E line \in {Line(idx)} :
           /\ IsUrlLine(line) /\ ~UrlparseRaises(line)
           /\ call' = [NoCall EXCEPT !.url = line, !.raised = TRUE, !.via = "raise",
                                     !.fetched = <<line>>]
    /\ gets' = gets + 1
    /\ Write(FALLBACK_M3U \o NL, "raise")
    /\ GrabIdle
    /\ Fixed

\* lines 131-137: session.get raises
FetchFail ==
    /\ InLoop
    /\ \E line \in {Line(idx)} :
           /\ IsUrlLine(line) /\ ~UrlparseRaises(line)
           /\ Return([NoCall EXCEPT !.url = line, !.via = "fetchfail",
                                    !.result = FALLBACK_M3U, !.fetched = <<line>>])
    /\ gets' = gets + 1
    /\ Fixed

\* the history of a call whose page p arrived and whose page stage gave st
PageCall(p, url, st) ==
    [NoCall EXCEPT !.url = url, !.fetchOk = TRUE, !.page = p,
                   !.tried = st.tried, !.fetched = <<url>>]

\* lines 139-169 once the page arrived
AfterPage(p, st, todo, c) ==
    IF st.link # None
    THEN Return([c EXCEPT !.via = st.tried[Len(st.tried)], !.result = st.link])
    ELSE IF todo = <<>>
    THEN Return([c EXCEPT !.via = "exhausted", !.result = FALLBACK_M3U])
    ELSE /\ pc' = "scripts"
         /\ page' = p
         /\ scripts' = todo
         /\ k' = 1
         /\ call' = c
         /\ UNCHANGED <<idx, out, log>>

PageArrives(p, url, st) ==
    \E todo \in {ScriptsToTry(p, url)}, c \in {PageCall(p, url, st)} :
        AfterPage(p, st, todo, c)

\* lines 131-167: the page arrives and the page heuristics run
FetchPage ==
    /\ InLoop
    /\ \E line \in {Line(idx)} :
           /\ IsUrlLine(line) /\ ~UrlparseRaises(line)
           /\ \E p \in Serve(line) :
                  \E st \in {PageStage(p, line)} : PageArrives(p, line, st)
    /\ gets' = gets + 1
    /\ Fixed

\* the history of the running call once script k was requested
Requested(body) ==
    [call EXCEPT !.fetched = Append(call.fetched, scripts[k]),
                 !.bodies = Append(call.bodies, body),
                 !.failed = IF body = Raised THEN call.failed \cup {k} ELSE call.failed,
                 !.tried = IF k = 1 THEN Append(call.tried, "scripts") ELSE call.tried]

\* script k yielded nothing: on to the next script, or to line 179
NextScript(c) ==
    IF k < Len(scripts)
    THEN /\ k' = k + 1
         /\ call' = c
         /\ UNCHANGED <<pc, idx, out, log, page, scripts>>
    ELSE Return([c EXCEPT !.via = "exhausted", !.result = FALLBACK_M3U])

\* lines 172-174 for the body of script k
ScriptArrives(body, f) ==
    IF f.link # None
    THEN Return([Requested(body) EXCEPT !.via = "scripts", !.result = f.link])
    ELSE NextScript(Requested(body))

\* lines 169-174: script k arrives
FetchScript ==
    /\ pc = "scripts"
    /\ gets' = gets + 1
    /\ \E body \in ScriptBodies :
           \E f \in {find_m3u8_in_text(body, scripts[k])} : ScriptArrives(body, f)
    /\ Fixed

\* lines 175-176: session.get raises for script k
FetchScriptFail ==
    /\ pc = "scripts"
    /\ gets' = gets + 1
    /\ NextScript(Requested(Raised))
    /\ Fixed

\* line 230
Flush ==
    /\ pc = "loop" /\ idx > Len(lines)
    /\ pc' = "done"
    /\ UNCHANGED <<idx, out, log, gets, page, scripts, k, call>>
    /\ Fixed

Next ==
    \/ Open
    \/ OpenMissing
    \/ SkipLine
    \/ MetaLine
    \/ CommentLine
    \/ UrlParseError
    \/ FetchFail
    \/ FetchPage
    \/ FetchScriptFail
    \/ FetchScript
    \/ Flush

\* ------------------------------------------------------------ input files
LineBlank ==
    <<>>
LineSpaces ==
    <<" ", "\t">>
LineTilde ==
    <<"~", "~", " ", "o", "l", "d">>
LineTildeInd ==
    <<" ", " ", "~", "~", "x">>
LineMeta ==
    <<"A", "b", " ", "c", " ", "|", " ", "n", "E", "w", "s", " ", "3", "t", "v", " ", "|", " ",
    "l", ".", "p", "n", "g", " ", "|", " ", "i", "1", " ">>
LineMetaTight ==
    <<"n", "|", "g", "|", "l", "|", "i">>
LineMetaFive ==
    <<"n", " ", "|", " ", "g", " ", "|", " ", "l", " ", "|", " ", "i", " ", "|", " ", "x">>
LineThree ==
    <<"a", " ", "|", " ", "b", " ", "|", " ", "c">>
LineText ==
    <<" ", "t", "x", "t", " ">>
LineUrl ==
    <<"h", "t", "t", "p", ":", "/", "/", "s", "/", "p">>
LineUrlUpper ==
    <<" ", "H", "T", "T", "P", ":", "/", "/", "s", "/", "q", " ">>
LineUrlBad ==
    <<"h", "t", "t", "p", ":", "/", "/", "[", "s", "/", "p">>
LineUrlRich ==
    <<"h", "t", "t", "p", ":", "/", "/", "r", "/", "p">>

LineSet == {LineBlank, LineSpaces, LineTilde, LineTildeInd, LineMeta, LineMetaTight,
            LineMetaFive, LineThree, LineText, LineUrl, LineUrlUpper, LineUrlBad}

InitWith(files) ==
    /\ exists \in BOOLEAN
    /\ hasBs4 \in BOOLEAN
    /\ lines \in files
    /\ pc = "start"
    /\ idx = 1
    /\ out = <<>>
    /\ log = <<>>
    /\ gets = 0
    /\ page = NoPage
    /\ scripts = <<>>
    /\ k = 0
    /\ call = NoCall

\* every file of at most MaxLines lines, served by the small host
Init == InitWith(SeqsUpTo(LineSet, MaxLines))
Spec == Init /\ [][Next]_vars

\* one line of each kind, for the runs followed to their end
LiveLines == {LineBlank, LineTilde, LineMeta, LineThree, LineUrl, LineUrlBad}
InitFair == InitWith(SeqsUpTo(LiveLines, MaxLines))
\* the loop is sequential and every request is bounded by its timeout, so a
\* step that can be taken is taken
FairSpec == InitFair /\ [][Next]_vars /\ WF_vars(Next)

\* every one-line file, the URL of the host that serves every page included
InitGrab == InitWith({<<l>> : l \in LineSet \cup {LineUrlRich}})
GrabSpec == InitGrab /\ [][Next]_vars

\* ----------------------------------------------------------------- claims
\* The classes of input lines, as the claims word them.
Trimmed(i) == Strip(lines[i])
BlankOrTilde(i) == Trimmed(i) = <<>> \/ StartsWith(Trimmed(i), <<"~", "~">>)
UrlLineAt(i) == ~BlankOrTilde(i) /\ LowerStartsWithAt(Trimmed(i), 1, <<"h", "t", "t", "p">>)
MetadataAt(i) == ~BlankOrTilde(i) /\ ~UrlLineAt(i)
Fields(i) == Split(Trimmed(i), "|")
\* the lines the loop has gone past
Done(i) == i \in 1..Len(lines) /\ pc \in {"loop", "scripts", "done"} /\ i < idx
\* the records written for line i: out[1], out[2] are the header and the banner
RecordsOf(i) == {r \in 1..Len(log) : log[r].line = i}
Record(r) == out[r + 2]
ExtinfPrefix == <<"\n", "#", "E", "X", "T", "I", "N", "F">>
ExtinfLine(group, logo, id, name) ==
    ExtinfPrefix \o <<":", "-", "1", " ", "g", "r", "o", "u", "p", "-", "t", "i", "t", "l",
    "e", "=", "\"">> \o group \o <<"\"", " ", "t", "v", "g", "-", "l", "o", "g", "o", "=", "\"">>
    \o logo \o <<"\"", " ", "t", "v", "g", "-", "i", "d", "=", "\"">> \o id
    \o <<"\"", ",", " ">> \o name \o <<"\n">>

\* C1 as stated: every processed metadata line with 4 fields has exactly one
\* EXTINF record, with the second field title-cased and the third, fourth and
\* first fields verbatim.
C1_Verbatim ==
    \A i \in 1..Len(lines) :
        (Done(i) /\ MetadataAt(i) /\ Len(Fields(i)) = 4) =>
            \E r \in RecordsOf(i) :
                /\ RecordsOf(i) = {r}
                /\ Record(r) = ExtinfLine(Title(Fields(i)[2]), Fields(i)[3],
                                          Fields(i)[4], Fields(i)[1])

\* C1 amended: every processed metadata line with 4 fields has exactly one
\* EXTINF record; its group-title is the second field trimmed of surrounding
\* whitespace and title-cased, its tvg-logo, tvg-id and channel name are the
\* third, fourth and first fields trimmed of surrounding whitespace and
\* otherwise unchanged.
C1_TrimmedFields ==
    \A i \in 1..Len(lines) :
        (Done(i) /\ MetadataAt(i) /\ Len(Fields(i)) = 4) =>
            \E r \in RecordsOf(i) :
                /\ RecordsOf(i) = {r}
                /\ Record(r) = ExtinfLine(Title(Strip(Fields(i)[2])), Strip(Fields(i)[3]),
                                          Strip(Fields(i)[4]), Strip(Fields(i)[1]))

\* a 4-field line whose fields carry surrounding whitespace has been written
C1_Witness ==
    \E i \in 1..Len(lines) :
        /\ Done(i) /\ MetadataAt(i) /\ Len(Fields(i)) = 4
        /\ Fields(i)[2] # Strip(Fields(i)[2])
        /\ RecordsOf(i) # {}

\* C2: every processed metadata line with fewer than 4 fields has exactly one
\* record, the comment "# " + the trimmed line; it is no EXTINF line, and the
\* run is not aborted.
C2_ShortLineIsComment ==
    \A i \in 1..Len(lines) :
        (Done(i) /\ MetadataAt(i) /\ Len(Fields(i)) < 4) =>
            /\ pc # "aborted"
            /\ \E r \in RecordsOf(i) :
                /\ RecordsOf(i) = {r}
                /\ Record(r) = <<"\n", "#", " ">> \o Trimmed(i) \o <<"\n">>
                /\ ~StartsWith(Record(r), ExtinfPrefix)

\* a line of three fields has been written
C2_Witness ==
    \E i \in 1..Len(lines) :
        /\ Done(i) /\ MetadataAt(i) /\ Len(Fields(i)) = 3
        /\ RecordsOf(i) # {}

\* C3: the step that takes a blank or "~~" line writes nothing and requests
\* nothing: output, its history and the request count are left as they were.
C3_SkippedLineNoEffect ==
    [][(pc = "loop" /\ idx <= Len(lines) /\ BlankOrTilde(idx))
          => (out' = out /\ log' = log /\ gets' = gets /\ call' = call)]_vars

\* a "~~" line preceded by spaces has been passed, with nothing written for it
C3_Witness ==
    \E i \in 1..Len(lines) :
        /\ Done(i) /\ BlankOrTilde(i)
        /\ Trimmed(i) # <<>> /\ lines[i] # Trimmed(i)
        /\ RecordsOf(i) = {}
        /\ Len(out) = 2

\* C4: after the header and the banner the records follow the input order:
\* the lines they come from increase strictly, they are exactly the
\* non-skipped lines passed so far (so one record each), and each record is
\* of the kind of its line.
C4_InputOrder ==
    pc \in {"loop", "scripts", "done"} =>
        /\ out[1] = HEADER /\ out[2] = BANNER \o <<"\n">>
        /\ Len(out) = Len(log) + 2
        /\ \A a, b \in 1..Len(log) : a < b => log[a].line < log[b].line
        /\ {log[r].line : r \in 1..Len(log)}
               = {i \in 1..Len(lines) : Done(i) /\ ~BlankOrTilde(i)}
        /\ \A r \in 1..Len(log) :
              /\ (MetadataAt(log[r].line) /\ Len(Fields(log[r].line)) >= 4)
                     <=> StartsWith(Record(r), ExtinfPrefix)
              /\ (MetadataAt(log[r].line) /\ Len(Fields(log[r].line)) < 4)
                     <=> StartsWith(Record(r), <<"\n", "#", " ">>)
              /\ UrlLineAt(log[r].line)
                     <=> log[r].how \notin {"extinf", "comment"}

\* a finished run of a two-line file with two records of different kinds
C4_Witness ==
    /\ pc = "done" /\ Len(lines) >= 2
    /\ Len(log) = 2
    /\ log[1].how # log[2].how

\* a grab_m3u8 call has been made and is over
Returned == call.url # <<>> /\ pc # "scripts"
Fallback ==
    <<"h", "t", "t", "p", "s", ":", "/", "/", "r", "a", "w", ".", "g", "i", "t", "h", "u", "b",
    "u", "s", "e", "r", "c", "o", "n", "t", "e", "n", "t", ".", "c", "o", "m", "/", "b", "e",
    "n", "m", "o", "o", "s", "e", "3", "9", "/", "Y", "o", "u", "T", "u", "b", "e", "_", "t",
    "o", "_", "m", "3", "u", "/", "m", "a", "i", "n", "/", "a", "s", "s", "e", "t", "s", "/",
    "m", "o", "o", "s", "e", "_", "n", "a", ".", "m", "3", "u">>
\* the record of the last URL line written
LastUrlRecord ==
    Record(Max({r \in 1..Len(log) : log[r].how \notin {"extinf", "comment"}}))

\* C5: a call whose page was requested and did not arrive returns exactly the
\* fallback, raises nothing, requests nothing more, and the fallback is what
\* is written for the line.
C5_FetchFailureGivesFallback ==
    (Returned /\ call.fetched # <<>> /\ ~call.fetchOk) =>
        /\ call.result = Fallback
        /\ ~call.raised
        /\ call.fetched = <<call.url>>
        /\ LastUrlRecord = Fallback \o <<"\n">>

\* the last call of a finished two-line run is one whose page request failed
C5_Witness ==
    /\ Returned /\ call.fetched # <<>> /\ ~call.fetchOk
    /\ pc = "done" /\ Len(lines) = 2 /\ UrlLineAt(1)

\* The absolute URLs ending in .m3u8 of a text, as <<first index, last index>>:
\* http:// or https://, one or more characters none of which is whitespace, a
\* quote, an angle bracket or "#", then .m3u8 (letters in either case).
SchemeStarts(t) == {i \in 1..Len(t) : SchemeLen(t, i) # 0}
M3u8Ends(t) == {j \in 5..Len(t) : LowerStartsWithAt(t, j - 4, <<".", "m", "3", "u", "8">>)}
AbsAmong(t, starts, ends) ==
    {ij \in starts \X ends :
        /\ ij[2] - 4 > ij[1] + SchemeLen(t, ij[1])
        /\ \A x \in ij[1]..ij[2] : t[x] \notin UrlStop}
AbsM3u8(t) == AbsAmong(t, SchemeStarts(t), M3u8Ends(t))
\* the first of them: leftmost start, then nearest end
FirstPair(S) ==
    CHOOSE ij \in S : \A o \in S : ij[1] < o[1] \/ (ij[1] = o[1] /\ ij[2] <= o[2])
Cut(t, ij) == SubSeq(t, ij[1], ij[2])

FirstLiteralReturned(t, S) ==
    S # {} =>
        /\ pc # "scripts"
        /\ call.result = Cut(t, FirstPair(S))
        /\ call.tried = <<"regex">>
        /\ call.fetched = <<call.url>>

SeveralStarts(S) == Cardinality({ij[1] : ij \in S}) >= 2

UrlRecords == {r \in 1..Len(log) : log[r].how \notin {"extinf", "comment"}}
Failures == {"fetchfail", "raise", "exhausted"}

\* the run is over, every non-skipped line has its record, every URL line has
\* exactly one URL record, and a failed resolution wrote the fallback
AllLinesWritten ==
    /\ pc = "done"
    /\ Cardinality(UrlRecords) = Cardinality({i \in 1..Len(lines) : UrlLineAt(i)})
    /\ \A i \in 1..Len(lines) :
          /\ ~BlankOrTilde(i) => Cardinality(RecordsOf(i)) = 1
          /\ UrlLineAt(i) => RecordsOf(i) \subseteq UrlRecords
    /\ \A r \in UrlRecords :
          /\ Record(r)[Len(Record(r))] = "\n"
          /\ log[r].how \in Failures => Record(r) = Fallback \o <<"\n">>

AllUrlsRan == Len(call.tried) >= 5 /\ call.tried[5] = "allurls"
HasM3u8(u) == LowerFind(u, <<".", "m", "3", "u", "8">>) # 0
EndsInM3u8(u) == LowerEndsWith(u, <<".", "m", "3", "u", "8">>)
Truncated(u) == SubSeq(u, 1, LowerFind(u, <<".", "m", "3", "u", "8">>) + 4)
Containing(urls) == SelectSeq(urls, HasM3u8)
Ending(urls) == SelectSeq(urls, EndsInM3u8)

TruncatedFirstReturned(cs) ==
    cs # <<>> =>
        /\ pc # "scripts"
        /\ call.via = "allurls"
        /\ call.result = Truncated(cs[1])

\* C8 as stated: when the scan of all URLs is reached and some absolute URL of
\* the page contains ".m3u8", the call returns the first such URL cut after
\* ".m3u8" (looked at when the page heuristics are over, before any script is
\* requested).
C8_ContainsTruncated ==
    (call.fetchOk /\ AllUrlsRan /\ call.bodies = <<>>) =>
        TruncatedFirstReturned(Containing(SIMPLE_URL_RE_findall(PageText(call.page))))

WholeFirstReturned(es) ==
    IF es # <<>>
    THEN /\ pc # "scripts"
         /\ call.via = "allurls"
         /\ call.result = es[1]
         /\ EndsInM3u8(call.result)
    ELSE call.via # "allurls"

\* C8 amended: when the scan of all URLs is reached, the call returns the first
\* absolute URL of the page that ends in ".m3u8" (letters in either case),
\* whole; a URL that only contains ".m3u8" is passed over, nothing is cut, and
\* the scan decides nothing when no URL ends in ".m3u8".
C8_EndsWithWhole ==
    (call.fetchOk /\ AllUrlsRan /\ call.bodies = <<>>) =>
        WholeFirstReturned(Ending(SIMPLE_URL_RE_findall(PageText(call.page))))

\* the scan returned a URL that holds ".m3u8" before its end as well
C8_Witness ==
    /\ Returned /\ call.via = "allurls"
    /\ call.result # Truncated(call.result)

\* the URL of the n-th external script of the page of the call
ScriptUrl(n) == SubSeq(call.url, 1, 8) \o ScriptSrc(n)
NoLink(body, url) == body = Raised \/ find_m3u8_in_text(body, url).link = <<>>
Smaller(a, b) == IF a < b THEN a ELSE b

\* C9: scripts are requested only after the page heuristics all failed; at
\* most 5 of them, so at most 6 requests; each request after the page is for
\* the next script tag of the page, never for one named in a script; every
\* body before the last yielded no link and a call decided by a script
\* returns the link of the last body; a request that raised is passed over
\* and the remaining scripts are still requested.
C9_ScriptFetching ==
    call.fetched # <<>> =>
        /\ call.fetched[1] = call.url
        /\ Len(call.fetched) <= 6
        /\ Len(call.bodies) = Len(call.fetched) - 1
        /\ Len(call.bodies) <= Smaller(call.page.nscripts, 5)
        /\ \A n \in 1..Len(call.bodies) : call.fetched[n + 1] = ScriptUrl(n)
        /\ (call.bodies # <<>> \/ pc = "scripts") =>
              SubSeq(call.tried, 1, 5) = <<"regex", "window", "relattr", "bs4", "allurls">>
        /\ (call.bodies = <<>> /\ pc = "scripts") =>
              PageStage(call.page, call.url).link = <<>>
        /\ \A n \in 1..(Len(call.bodies) - 1) : NoLink(call.bodies[n], call.fetched[n + 1])
        /\ call.failed = {n \in 1..Len(call.bodies) : call.bodies[n] = Raised}
        /\ pc = "scripts" =>
              /\ k = Len(call.fetched)
              /\ \A n \in 1..Len(call.bodies) : NoLink(call.bodies[n], call.fetched[n + 1])
        /\ (Returned /\ call.via = "scripts") =>
              /\ ~NoLink(call.bodies[Len(call.bodies)], call.fetched[Len(call.fetched)])
              /\ call.result = find_m3u8_in_text(call.bodies[Len(call.bodies)],
                                                 call.fetched[Len(call.fetched)]).link
        /\ (Returned /\ call.via = "exhausted" /\ hasBs4) =>
              /\ Len(call.bodies) = Smaller(call.page.nscripts, 5)
              /\ call.result = Fallback

\* a page with more than 5 scripts: requests raised, and the fifth script
\* gave the link
C9_Witness ==
    /\ Returned /\ call.via = "scripts"
    /\ call.page.nscripts > 5
    /\ Len(call.fetched) = 6
    /\ call.failed # {}

\* C10 as stated: whatever a call returns is the fallback or a non-empty
\* string containing ".m3u8" (letters in either case), and so is the URL line
\* written for it.
C10_FallbackOrM3u8 ==
    (Returned /\ ~call.raised) =>
        /\ call.result = Fallback \/ (call.result # <<>> /\ HasM3u8(call.result))
        /\ \A r \in UrlRecords :
              \/ Record(r) = Fallback \o <<"\n">>
              \/ HasM3u8(Record(r))

====
